---- MODULE Spec2Model ----
(***************************************************************************)
(* Model of client/deployments/client.go: the HTTP client of the           *)
(* deployments service used by the reporting backend.                      *)
(*                                                                         *)
(* Go strings are modelled as sequences of one-character strings, so that  *)
(* strings.Replace, url.Parse, url.Values.Encode and url.QueryEscape are   *)
(* computed character by character as the code computes them.              *)
(***************************************************************************)
EXTENDS Integers, Sequences, FiniteSets, TLC

(***************************************************************************)
(* Bounds of the model.                                                    *)
(***************************************************************************)
\* longest ID sequence whose contents are enumerated exhaustively
MaxIDs == 2
\* longest decoded response array
MaxBody == 2

(***************************************************************************)
(* Program constants (client.go:32-37).                                    *)
(***************************************************************************)
maxPerPage == 100

urlDeviceDeployments ==
    << "/","a","p","i","/","i","n","t","e","r","n","a","l","/","v","1","/",
       "d","e","p","l","o","y","m","e","n","t","s","/",
       "t","e","n","a","n","t","s","/",":","t","i","d","/",
       "d","e","p","l","o","y","m","e","n","t","s","/",
       "d","e","v","i","c","e","s" >>

urlDeviceDeploymentsID == urlDeviceDeployments \o << "/",":","i","d" >>

MethodGet == "GET"
StatusOK == 200
StatusNotFound == 404

(***************************************************************************)
(* Strings.                                                                *)
(***************************************************************************)
\* the characters of the model in ASCII order (byte order of Go strings)
Alphabet ==
    << "\n", "%", "&", "/", "0", "1", "2", "3", "4", "5", "6", "7", "8", "9",
       ":", "=", "?", "A", "B", "C", "D", "E", "F", "_",
       "a", "b", "c", "d", "e", "g", "h", "i", "l", "m", "n", "o", "p", "r",
       "s", "t", "v", "x", "y" >>

CharCode(c) == CHOOSE i \in 1..Len(Alphabet) : Alphabet[i] = c

\* s < t in Go's string order
RECURSIVE StrLess(_, _)
StrLess(s, t) ==
    IF t = << >> THEN FALSE
    ELSE IF s = << >> THEN TRUE
    ELSE IF Head(s) = Head(t) THEN StrLess(Tail(s), Tail(t))
    ELSE CharCode(Head(s)) < CharCode(Head(t))

HasPrefix(s, prefix) ==
    /\ Len(prefix) <= Len(s)
    /\ SubSeq(s, 1, Len(prefix)) = prefix

HasSuffix(s, suffix) ==
    /\ Len(suffix) <= Len(s)
    /\ SubSeq(s, Len(s) - Len(suffix) + 1, Len(s)) = suffix

\* strings.Index: the position of the first occurrence of sub in s, 0 if none
Index(s, sub) ==
    LET hits == { i \in 1..(Len(s) - Len(sub) + 1) :
                    SubSeq(s, i, i + Len(sub) - 1) = sub }
    IN IF hits = {} THEN 0
       ELSE CHOOSE i \in hits : \A j \in hits : i <= j

Contains(s, sub) == Index(s, sub) # 0

\* strings.Replace(s, old, new, 1): the first occurrence only
Replace(s, old, new) ==
    LET i == Index(s, old)
    IN IF i = 0 THEN s
       ELSE SubSeq(s, 1, i - 1) \o new \o SubSeq(s, i + Len(old), Len(s))

\* strings.Cut(s, sep)
Cut(s, sep) ==
    LET i == Index(s, sep)
    IN IF i = 0 THEN [before |-> s, after |-> << >>, found |-> FALSE]
       ELSE [before |-> SubSeq(s, 1, i - 1),
             after  |-> SubSeq(s, i + Len(sep), Len(s)),
             found  |-> TRUE]

\* strconv.Itoa for n >= 0
Digits == << "0", "1", "2", "3", "4", "5", "6", "7", "8", "9" >>

RECURSIVE Itoa(_)
Itoa(n) ==
    IF n < 10 THEN << Digits[n + 1] >>
    ELSE Itoa(n \div 10) \o << Digits[(n % 10) + 1] >>

(***************************************************************************)
(* utils.JoinURL: base and path joined by exactly one slash.               *)
(***************************************************************************)
JoinURL(base, url) ==
    LET u == IF HasPrefix(url, << "/" >>) THEN Tail(url) ELSE url
        b == IF HasSuffix(base, << "/" >>) THEN base ELSE base \o << "/" >>
    IN b \o u

(***************************************************************************)
(* net/url: parsing, query values, escaping.                               *)
(***************************************************************************)
\* url.Parse rejects a string holding an ASCII control character; the
\* strings of the model break no other rule of url.Parse
ParseOK(rawURL) == \A i \in 1..Len(rawURL) : rawURL[i] # "\n"

\* url.Parse: the text up to the first "?" (scheme, host and path) and the
\* raw query after it
Parse(rawURL) ==
    LET c == Cut(rawURL, << "?" >>)
    IN [Rest |-> c.before, RawQuery |-> c.after]

\* URL.String
URLString(u) ==
    IF u.RawQuery = << >> THEN u.Rest ELSE u.Rest \o << "?" >> \o u.RawQuery

\* the characters url.QueryEscape leaves alone
Unreserved ==
    { Alphabet[i] : i \in 1..Len(Alphabet) } \ { "\n", "%", "&", "/", ":", "=", "?" }

\* the two hexadecimal digits of a reserved character
HexOf(c) ==
    CASE c = "\n" -> << "0", "A" >>
      [] c = "%"  -> << "2", "5" >>
      [] c = "&"  -> << "2", "6" >>
      [] c = "/"  -> << "2", "F" >>
      [] c = ":"  -> << "3", "A" >>
      [] c = "="  -> << "3", "D" >>
      [] c = "?"  -> << "3", "F" >>

Reserved == { "\n", "%", "&", "/", ":", "=", "?" }

EscapeChar(c) == IF c \in Unreserved THEN << c >> ELSE << "%" >> \o HexOf(c)

\* an Encode that does not escape
QueryEscapeNone(s) == s

RECURSIVE QueryEscape(_)
QueryEscape(s) ==
    IF s = << >> THEN << >> ELSE EscapeChar(Head(s)) \o QueryEscape(Tail(s))

\* url.QueryUnescape: ok is FALSE on a malformed % escape
RECURSIVE QueryUnescape(_)
QueryUnescape(s) ==
    IF s = << >> THEN [ok |-> TRUE, val |-> << >>]
    ELSE IF Head(s) = "%"
    THEN IF Len(s) >= 3 /\ \E c \in Reserved : HexOf(c) = SubSeq(s, 2, 3)
         THEN LET c == CHOOSE c \in Reserved : HexOf(c) = SubSeq(s, 2, 3)
                  r == QueryUnescape(SubSeq(s, 4, Len(s)))
              IN [ok |-> r.ok, val |-> << c >> \o r.val]
         ELSE [ok |-> FALSE, val |-> << >>]
    ELSE LET r == QueryUnescape(Tail(s))
         IN [ok |-> r.ok, val |-> << Head(s) >> \o r.val]

\* url.Values: a map from key to the sequence of its values
NoValues == [k \in {} |-> << >>]

\* Values.Add
Add(q, key, value) ==
    IF key \in DOMAIN q THEN [q EXCEPT ![key] = Append(@, value)]
    ELSE [k \in DOMAIN q \cup {key} |-> IF k = key THEN << value >> ELSE q[k]]

\* strings.Split(s, sep) for a one-character separator
Split(s, sep) ==
    LET at == SelectSeq([i \in 1..Len(s) |-> i], LAMBDA i : s[i] = sep)
        n  == Len(at)
        from(k) == IF k = 1 THEN 1 ELSE at[k - 1] + 1
        to(k)   == IF k = n + 1 THEN Len(s) ELSE at[k] - 1
    IN [k \in 1..(n + 1) |-> SubSeq(s, from(k), to(k))]

\* the concatenation of seqs[lo..hi]
RECURSIVE Flatten(_, _, _)
Flatten(seqs, lo, hi) ==
    IF lo > hi THEN << >>
    ELSE IF lo = hi THEN seqs[lo]
    ELSE LET mid == (lo + hi) \div 2
         IN Flatten(seqs, lo, mid) \o Flatten(seqs, mid + 1, hi)

\* strings.Join(parts, sep)
Join(parts, sep) ==
    Flatten([i \in 1..Len(parts) |->
                IF i = 1 THEN parts[i] ELSE sep \o parts[i]], 1, Len(parts))

\* one key=value piece of a query, unescaped; ok is FALSE for a piece that
\* url.ParseQuery skips (empty) or rejects (malformed escape)
ParsePair(piece) ==
    LET kv  == Cut(piece, << "=" >>)
        key == QueryUnescape(kv.before)
        val == QueryUnescape(kv.after)
    IN [ok |-> piece # << >> /\ key.ok /\ val.ok, key |-> key.val, val |-> val.val]

PairOK(pair) == pair.ok

\* url.ParseQuery as URL.Query uses it: the pairs in the order of the text,
\* malformed pairs dropped
ParseQuery(query) ==
    LET pieces == Split(query, "&")
        pairs  == SelectSeq([i \in 1..Len(pieces) |-> ParsePair(pieces[i])], PairOK)
        keys   == { pairs[i].key : i \in 1..Len(pairs) }
        of(k)  == SelectSeq(pairs, LAMBDA pair : pair.key = k)
    IN [k \in keys |-> [n \in 1..Len(of(k)) |-> of(k)[n].val]]

\* the keys of a map in increasing order
RECURSIVE SortedKeys(_)
SortedKeys(keys) ==
    IF keys = {} THEN << >>
    ELSE LET k == CHOOSE k \in keys : \A o \in keys \ {k} : StrLess(k, o)
         IN << k >> \o SortedKeys(keys \ {k})

\* the key=value pairs of one key
EncodeKey(key, vals) ==
    [i \in 1..Len(vals) |-> QueryEscape(key) \o << "=" >> \o QueryEscape(vals[i])]

\* Values.Encode: keys sorted, the values of a key in their order, the pairs
\* joined by "&"
EncodeKeys(q, keys) ==
    LET perKey == [i \in 1..Len(keys) |-> EncodeKey(keys[i], q[keys[i]])]
    IN Join(Flatten(perKey, 1, Len(keys)), << "&" >>)

Encode(q) == EncodeKeys(q, SortedKeys(DOMAIN q))

\* the loop of client.go:93-95
AddAll(q, key, vals) ==
    IF vals = << >> THEN q
    ELSE IF key \in DOMAIN q THEN [q EXCEPT ![key] = @ \o vals]
    ELSE [k \in DOMAIN q \cup {key} |-> IF k = key THEN vals ELSE q[k]]

(***************************************************************************)
(* Values of the model.                                                    *)
(***************************************************************************)
SeqsUpTo(S, n) == UNION { [1..k -> S] : k \in 0..n }

Callers == {1, 2}

\* context states: the caller's context, and the one derived from it
CtxActive == "active"
CtxCanceled == "context canceled"
CtxDeadline == "context deadline exceeded"

BaseURLs == { << "h",":","/","/","h" >>, << "h",":","/","/","h","/" >> }

\* tenant IDs: plain, holding the text ":id", holding a control character,
\* holding a query of its own
TenantIDs ==
    { << "x" >>,
      << "x",":","i","d" >>,
      << "x","\n" >>,
      << "x","?","i","d","=","y" >> }

DeviceIDs == { << "d" >>, << ":","t","i","d" >> }

IdPool == { << "a" >>, << "&","b" >> }

\* an ID sequence of length n over IdPool
LongIDs(n) == [i \in 1..n |-> IF i % 2 = 1 THEN << "a" >> ELSE << "&","b" >>]

IDLists ==
    SeqsUpTo(IdPool, MaxIDs)
        \cup { LongIDs(n) : n \in { maxPerPage, maxPerPage + 1, maxPerPage + MaxIDs } }

Contexts == { CtxActive, CtxCanceled, CtxDeadline }

\* decoded records are opaque
Records == { "d1", "d2" }

\* response bodies: a JSON array of records, the JSON value null, and a text
\* that is not JSON or not of the expected shape
Bodies ==
    { [kind |-> "array", elems |-> e] : e \in SeqsUpTo(Records, MaxBody) }
        \cup { [kind |-> "null", elems |-> << >>],
               [kind |-> "malformed", elems |-> << >>] }

StatusLine(code) ==
    CASE code = 200 -> "200 OK"
      [] code = 404 -> "404 Not Found"
      [] code = 500 -> "500 Internal Server Error"
      [] code = 204 -> "204 No Content"

StatusCodes == { 200, 204, 404, 500 }

\* what c.client.Do returns: a response (cause "") or an error
Response(code, body) ==
    [cause |-> "", StatusCode |-> code, Status |-> StatusLine(code), Body |-> body]

DoError(cause) ==
    [cause |-> cause, StatusCode |-> 0, Status |-> "",
     Body |-> [kind |-> "null", elems |-> << >>]]

ErrNetwork == "connection refused"

NoOutcome == DoError("none")

DoOutcomes ==
    { Response(code, body) : code \in StatusCodes, body \in Bodies }
        \cup { DoError(c) : c \in { ErrNetwork, CtxCanceled, CtxDeadline } }

\* Go slices and pointers: nil is not an empty slice
NilSlice == [nil |-> TRUE, elems |-> << >>]
Slice(elems) == [nil |-> FALSE, elems |-> elems]
NilPtr == [nil |-> TRUE, elems |-> << >>]
Ptr(d) == [nil |-> FALSE, elems |-> << d >>]

\* errors: the format text and its arguments
NoError ==
    [nil |-> TRUE, text |-> "", method |-> "", url |-> << >>, status |-> "",
     cause |-> ""]
NewError(text) == [NoError EXCEPT !.nil = FALSE, !.text = text]
Wrap(cause, text) == [NewError(text) EXCEPT !.cause = cause]

NoRequest == [Method |-> "", URL |-> [Rest |-> << >>, RawQuery |-> << >>]]

IdleCall ==
    [pc |-> "idle", op |-> "", parent |-> CtxActive, ctx |-> CtxActive,
     tenantID |-> << >>,
     IDs |-> << >>, deviceID |-> << >>, url |-> << >>, req |-> NoRequest,
     out |-> NoOutcome, exit |-> "", closed |-> 0, decoded |-> FALSE,
     logged |-> 0, result |-> NilSlice, err |-> NoError]

VARIABLES client, calls, submitted, network

vars == << client, calls, submitted, network >>

(***************************************************************************)
(* Pieces of the two methods.                                              *)
(***************************************************************************)
\* NewClient (client.go:60-65)
NewClient(urlBase) == [client |-> "http.Client", urlBase |-> urlBase]

\* a method that keeps the URL it built in the receiver
ReceiverKeepsURL(c, url) == [c EXCEPT !.urlBase = url]

\* the methods read the receiver c and assign none of its fields
Receiver(c, url) == c

\* a timeout derived from the background context instead of the caller's
WithTimeoutBackground(parent) == CtxActive

\* context.WithTimeout (client.go:77, 134): a context derived from a done
\* parent is done, with the parent's error
WithTimeout(parent) == parent

\* http.NewRequestWithContext (client.go:80, 137): fails when the URL does
\* not parse
NewRequestWithContext(method, url) ==
    [ok |-> ParseOK(url), req |-> [Method |-> method, URL |-> Parse(url)]]

\* req.URL.Query (client.go:90, 142)
Query(u) == ParseQuery(u.RawQuery)

\* json.Decoder.Decode into a nil []*DeviceDeployment (client.go:113-115,
\* 162-164): an array gives a non-nil slice, null leaves the slice nil
Decode(body) ==
    CASE body.kind = "array" -> [err |-> FALSE, devDevs |-> Slice(body.elems)]
      [] body.kind = "null"  -> [err |-> FALSE, devDevs |-> NilSlice]
      [] OTHER               -> [err |-> TRUE, devDevs |-> NilSlice]

\* errors.Wrapf(err, "failed to submit %s %s", req.Method, req.URL)
ErrSubmit(req, cause) ==
    [Wrap(cause, "failed to submit %s %s")
        EXCEPT !.method = req.Method, !.url = URLString(req.URL)]

\* a status error that reports the URL without its query
ErrStatusBareURL(req, out) ==
    [NewError("%s %s request failed with status %v")
        EXCEPT !.method = req.Method, !.url = req.URL.Rest,
               !.status = out.Status]

\* errors.Errorf("%s %s request failed with status %v", ...)
ErrStatus(req, out) ==
    [NewError("%s %s request failed with status %v")
        EXCEPT !.method = req.Method, !.url = URLString(req.URL),
               !.status = out.Status]

\* a Close placed after the decoding instead of deferred
BodyClosesAtEnd(out, exit) == IF exit \in { "empty", "ok" } THEN 1 ELSE 0

\* defer rsp.Body.Close() (client.go:102, 151): registered once Do has
\* returned a response, run on every return after it
BodyCloses(out, exit) == IF out.cause = "" THEN 1 ELSE 0

Return(call, out, exit, result, err, decoded, logged) ==
    [call EXCEPT !.pc = "done", !.out = out, !.exit = exit,
                 !.result = result, !.err = err, !.decoded = decoded,
                 !.logged = logged, !.closed = BodyCloses(out, exit)]

\* GetDeployments without the 404 branch
GetDeploymentsAfterDoNo404(call, out) ==
    LET dec == Decode(out.Body)
    IN IF out.cause # ""
       THEN Return(call, out, "submit", NilSlice,
                   ErrSubmit(call.req, out.cause), FALSE, 0)
       ELSE IF out.StatusCode # StatusOK
       THEN Return(call, out, "status", NilSlice,
                   ErrStatus(call.req, out), FALSE, 1)
       ELSE IF dec.err
       THEN Return(call, out, "decode", NilSlice,
                   Wrap("json", "failed to parse request body"), TRUE, 0)
       ELSE IF Len(dec.devDevs.elems) = 0
       THEN Return(call, out, "empty", NilSlice, NoError, TRUE, 0)
       ELSE Return(call, out, "ok", dec.devDevs, NoError, TRUE, 0)

\* GetDeployments from the return of c.client.Do (client.go:98-120)
GetDeploymentsAfterDo(call, out) ==
    LET dec == Decode(out.Body)
    IN IF out.cause # ""
       THEN Return(call, out, "submit", NilSlice,
                   ErrSubmit(call.req, out.cause), FALSE, 0)
       ELSE IF out.StatusCode = StatusNotFound
       THEN Return(call, out, "notfound", NilSlice, NoError, FALSE, 0)
       ELSE IF out.StatusCode # StatusOK
       THEN Return(call, out, "status", NilSlice,
                   ErrStatus(call.req, out), FALSE, 1)
       ELSE IF dec.err
       THEN Return(call, out, "decode", NilSlice,
                   Wrap("json", "failed to parse request body"), TRUE, 0)
       ELSE IF Len(dec.devDevs.elems) = 0
       THEN Return(call, out, "empty", NilSlice, NoError, TRUE, 0)
       ELSE Return(call, out, "ok", dec.devDevs, NoError, TRUE, 0)

\* GetLatestFinishedDeployment returning the last record instead of the first
GetLatestFinishedDeploymentAfterDoLast(call, out) ==
    LET dec == Decode(out.Body)
    IN IF out.cause # ""
       THEN Return(call, out, "submit", NilPtr,
                   ErrSubmit(call.req, out.cause), FALSE, 0)
       ELSE IF out.StatusCode = StatusNotFound
       THEN Return(call, out, "notfound", NilPtr, NoError, FALSE, 0)
       ELSE IF out.StatusCode # StatusOK
       THEN Return(call, out, "status", NilPtr,
                   ErrStatus(call.req, out), FALSE, 1)
       ELSE IF dec.err
       THEN Return(call, out, "decode", NilPtr,
                   Wrap("json", "failed to parse request body"), TRUE, 0)
       ELSE IF Len(dec.devDevs.elems) = 0
       THEN Return(call, out, "empty", NilPtr, NoError, TRUE, 0)
       ELSE Return(call, out, "ok",
                   Ptr(dec.devDevs.elems[Len(dec.devDevs.elems)]), NoError, TRUE, 0)

\* GetLatestFinishedDeployment from the return of c.client.Do
\* (client.go:147-169)
GetLatestFinishedDeploymentAfterDo(call, out) ==
    LET dec == Decode(out.Body)
    IN IF out.cause # ""
       THEN Return(call, out, "submit", NilPtr,
                   ErrSubmit(call.req, out.cause), FALSE, 0)
       ELSE IF out.StatusCode = StatusNotFound
       THEN Return(call, out, "notfound", NilPtr, NoError, FALSE, 0)
       ELSE IF out.StatusCode # StatusOK
       THEN Return(call, out, "status", NilPtr,
                   ErrStatus(call.req, out), FALSE, 1)
       ELSE IF dec.err
       THEN Return(call, out, "decode", NilPtr,
                   Wrap("json", "failed to parse request body"), TRUE, 0)
       ELSE IF Len(dec.devDevs.elems) = 0
       THEN Return(call, out, "empty", NilPtr, NoError, TRUE, 0)
       ELSE Return(call, out, "ok", Ptr(dec.devDevs.elems[1]), NoError, TRUE, 0)

\* the request GetDeployments builds (client.go:80, 90-96)
GetDeploymentsRequest(url, IDs) ==
    LET new == NewRequestWithContext(MethodGet, url).req
        q0  == Query(new.URL)
        q1  == Add(q0, << "p","a","g","e" >>, << "1" >>)
        q2  == Add(q1, << "p","e","r","_","p","a","g","e" >>, Itoa(Len(IDs)))
        q3  == AddAll(q2, << "i","d" >>, IDs)
    IN [new EXCEPT !.URL.RawQuery = Encode(q3)]

\* the request GetLatestFinishedDeployment builds (client.go:137, 142-145)
GetLatestFinishedDeploymentRequest(url) ==
    LET new == NewRequestWithContext(MethodGet, url).req
        q0  == Query(new.URL)
        q1  == Add(q0, << "p","a","g","e" >>, << "1" >>)
        q2  == Add(q1, << "p","e","r","_","p","a","g","e" >>, << "1" >>)
    IN [new EXCEPT !.URL.RawQuery = Encode(q2)]

\* the URL of GetDeployments (client.go:74-75)
GetDeploymentsURL(urlBase, tenantID) ==
    Replace(JoinURL(urlBase, urlDeviceDeployments), << ":","t","i","d" >>, tenantID)

\* the URL of GetLatestFinishedDeployment (client.go:130-132)
GetLatestFinishedDeploymentURL(urlBase, tenantID, deviceID) ==
    Replace(Replace(JoinURL(urlBase, urlDeviceDeploymentsID),
                    << ":","t","i","d" >>, tenantID),
            << ":","i","d" >>, deviceID)

(***************************************************************************)
(* The state machine.  A call is idle, in flight (blocked in c.client.Do)  *)
(* or done.                                                                *)
(***************************************************************************)
Init ==
    /\ client \in { NewClient(b) : b \in BaseURLs }
    /\ calls = [p \in Callers |-> IdleCall]
    /\ submitted = [p \in Callers |-> << >>]
    /\ network = [p \in Callers |-> << >>]

\* c.client.Do with the request built: a done context fails the exchange
\* before anything is sent, otherwise the request goes out and the call
\* blocks
Do(p, call, after) ==
    /\ submitted' = [submitted EXCEPT ![p] = Append(@, call.req)]
    /\ IF call.ctx # CtxActive
       THEN /\ calls' = [calls EXCEPT ![p] = after]
            /\ UNCHANGED network
       ELSE /\ calls' = [calls EXCEPT ![p] = [call EXCEPT !.pc = "inflight"]]
            /\ network' = [network EXCEPT ![p] = Append(@, call.req)]

\* GetDeployments up to c.client.Do (client.go:67-98)
GetDeployments(p, ctx, tenantID, IDs) ==
    /\ calls[p].pc = "idle"
    /\ LET url  == GetDeploymentsURL(client.urlBase, tenantID)
           new  == NewRequestWithContext(MethodGet, url)
           call == [calls[p] EXCEPT !.op = "GetDeployments",
                                    !.parent = ctx,
                                    !.ctx = WithTimeout(ctx),
                                    !.tenantID = tenantID, !.IDs = IDs,
                                    !.url = url]
           sent == [call EXCEPT !.req = GetDeploymentsRequest(url, IDs)]
       IN IF ~new.ok
          THEN /\ calls' = [calls EXCEPT ![p] =
                    [call EXCEPT !.pc = "done", !.exit = "create",
                                 !.err = Wrap("parse", "failed to create request")]]
               /\ UNCHANGED << submitted, network >>
          ELSE IF Len(IDs) > maxPerPage
          THEN /\ calls' = [calls EXCEPT ![p] =
                    [call EXCEPT !.pc = "done", !.exit = "validate",
                                 !.err = NewError("too many IDs")]]
               /\ UNCHANGED << submitted, network >>
          ELSE Do(p, sent, GetDeploymentsAfterDo(sent, DoError(sent.ctx)))
    /\ client' = Receiver(client, GetDeploymentsURL(client.urlBase, tenantID))

\* GetLatestFinishedDeployment up to c.client.Do (client.go:123-147)
GetLatestFinishedDeployment(p, ctx, tenantID, deviceID) ==
    /\ calls[p].pc = "idle"
    /\ LET url  == GetLatestFinishedDeploymentURL(client.urlBase, tenantID, deviceID)
           new  == NewRequestWithContext(MethodGet, url)
           call == [calls[p] EXCEPT !.op = "GetLatestFinishedDeployment",
                                    !.parent = ctx,
                                    !.ctx = WithTimeout(ctx),
                                    !.tenantID = tenantID,
                                    !.deviceID = deviceID, !.url = url,
                                    !.result = NilPtr]
           sent == [call EXCEPT !.req = GetLatestFinishedDeploymentRequest(url)]
       IN IF ~new.ok
          THEN /\ calls' = [calls EXCEPT ![p] =
                    [call EXCEPT !.pc = "done", !.exit = "create",
                                 !.err = Wrap("parse", "failed to create request")]]
               /\ UNCHANGED << submitted, network >>
          ELSE Do(p, sent, GetLatestFinishedDeploymentAfterDo(sent, DoError(sent.ctx)))
    /\ client' = Receiver(client,
                          GetLatestFinishedDeploymentURL(client.urlBase, tenantID, deviceID))

\* the caller cancels the context of a call in flight
CancelContext(p) ==
    /\ calls[p].pc = "inflight"
    /\ calls[p].ctx = CtxActive
    /\ calls' = [calls EXCEPT ![p].ctx = CtxCanceled]
    /\ UNCHANGED << client, submitted, network >>

\* the deadline of the derived context (client.go:77, 134) passes while the
\* call is in flight
DeadlineExceeded(p) ==
    /\ calls[p].pc = "inflight"
    /\ calls[p].ctx = CtxActive
    /\ calls' = [calls EXCEPT ![p].ctx = CtxDeadline]
    /\ UNCHANGED << client, submitted, network >>

\* what Do may return to a call in flight: a response or a network error at
\* any time, the context's error once the context is done
MayReturn(call, out) ==
    \/ out.cause \in { "", ErrNetwork }
    \/ call.ctx # CtxActive /\ out.cause = call.ctx

\* c.client.Do returns to GetDeployments, which runs to its return
\* (client.go:98-120)
GetDeploymentsReturns(p, out) ==
    /\ calls[p].pc = "inflight"
    /\ calls[p].op = "GetDeployments"
    /\ MayReturn(calls[p], out)
    /\ calls' = [calls EXCEPT ![p] = GetDeploymentsAfterDo(calls[p], out)]
    /\ UNCHANGED << client, submitted, network >>

\* c.client.Do returns to GetLatestFinishedDeployment, which runs to its
\* return (client.go:147-169)
GetLatestFinishedDeploymentReturns(p, out) ==
    /\ calls[p].pc = "inflight"
    /\ calls[p].op = "GetLatestFinishedDeployment"
    /\ MayReturn(calls[p], out)
    /\ calls' = [calls EXCEPT ![p] = GetLatestFinishedDeploymentAfterDo(calls[p], out)]
    /\ UNCHANGED << client, submitted, network >>

\* one caller, the whole input space
Next ==
    \E p \in {1} :
        \/ \E ctx \in Contexts, t \in TenantIDs, ids \in IDLists :
               GetDeployments(p, ctx, t, ids)
        \/ \E ctx \in Contexts, t \in TenantIDs, d \in DeviceIDs :
               GetLatestFinishedDeployment(p, ctx, t, d)
        \/ CancelContext(p)
        \/ DeadlineExceeded(p)
        \/ \E out \in DoOutcomes : GetDeploymentsReturns(p, out)
        \/ \E out \in DoOutcomes : GetLatestFinishedDeploymentReturns(p, out)

Spec == Init /\ [][Next]_vars

(***************************************************************************)
(* Two callers share one client; a smaller input space.                    *)
(***************************************************************************)
ConcTenantIDs == { << "x" >>, << "x",":","i","d" >> }

ConcIDLists == { << << "a" >>, << "&","b" >> >>, LongIDs(maxPerPage + 1) }

ConcDeviceIDs == { << "d" >> }

ConcContexts == { CtxActive, CtxCanceled }

ConcOutcomes ==
    { Response(200, [kind |-> "array", elems |-> << "d1", "d2" >>]),
      Response(404, [kind |-> "malformed", elems |-> << >>]),
      Response(500, [kind |-> "malformed", elems |-> << >>]),
      DoError(ErrNetwork), DoError(CtxCanceled) }

NextConc ==
    \E p \in Callers :
        \/ \E ctx \in ConcContexts, t \in ConcTenantIDs, ids \in ConcIDLists :
               GetDeployments(p, ctx, t, ids)
        \/ \E ctx \in ConcContexts, t \in ConcTenantIDs, d \in ConcDeviceIDs :
               GetLatestFinishedDeployment(p, ctx, t, d)
        \/ CancelContext(p)
        \/ DeadlineExceeded(p)
        \/ \E out \in ConcOutcomes : GetDeploymentsReturns(p, out)
        \/ \E out \in ConcOutcomes : GetLatestFinishedDeploymentReturns(p, out)

SpecConc == Init /\ [][NextConc]_vars

(***************************************************************************)
(* Properties.                                                             *)
(***************************************************************************)
Started(p) == calls[p].pc # "idle"
Done(p) == calls[p].pc = "done"
IsGetDeployments(p) == Started(p) /\ calls[p].op = "GetDeployments"
IsGetLatest(p) == Started(p) /\ calls[p].op = "GetLatestFinishedDeployment"

\* Do returned a response to the call
GotResponse(p) == Done(p) /\ calls[p].out.cause = ""

\* the absent result of the call's operation
NilResult(p) == calls[p].result.nil /\ calls[p].result.elems = << >>

\* the value of a decimal text
RECURSIVE Atoi(_)
Atoi(s) ==
    IF s = << >> THEN 0
    ELSE 10 * Atoi(SubSeq(s, 1, Len(s) - 1))
         + (CHOOSE d \in 0..9 : Digits[d + 1] = s[Len(s)])

KeyPage == << "p","a","g","e" >>
KeyPerPage == << "p","e","r","_","p","a","g","e" >>
KeyID == << "i","d" >>

\* the query a server reads from the one request of the call has page=1,
\* per_page=N and the N IDs in their order
QueryCarries(p) ==
    LET q == ParseQuery(submitted[p][1].URL.RawQuery)
        n == Len(calls[p].IDs)
    IN /\ DOMAIN q = { KeyPage, KeyPerPage } \cup (IF n > 0 THEN { KeyID } ELSE {})
       /\ q[KeyPage] = << << "1" >> >>
       /\ Len(q[KeyPerPage]) = 1
       /\ Atoi(q[KeyPerPage][1]) = n
       /\ n > 0 => q[KeyID] = calls[p].IDs

\* C1: a GetDeployments call with more than 100 IDs fails with the error
\* "too many IDs" and sends nothing, whatever the other inputs.
C1_TooManyIDs ==
    \A p \in Callers :
        IsGetDeployments(p) /\ Len(calls[p].IDs) > maxPerPage =>
            /\ Done(p)
            /\ NilResult(p)
            /\ calls[p].err = NewError("too many IDs")
            /\ submitted[p] = << >>
            /\ network[p] = << >>

\* C2 as stated: every GetDeployments call with N <= 100 IDs submits exactly
\* one GET request whose query has page=1, per_page=N and the N IDs in order.
C2_OneRequestAlways ==
    \A p \in Callers :
        IsGetDeployments(p) /\ Len(calls[p].IDs) <= maxPerPage =>
            /\ Len(submitted[p]) = 1
            /\ submitted[p][1].Method = "GET"
            /\ QueryCarries(p)

\* C2: a GetDeployments call with N <= 100 IDs whose URL parses and has no
\* query of its own hands exactly one GET request to the HTTP client, whose
\* query has page=1, per_page=N and the N IDs in order, duplicates kept; the
\* request goes out unless the context is already done; a call whose URL
\* does not parse hands over none.
C2_OneRequest ==
    \A p \in Callers :
        IsGetDeployments(p) /\ Len(calls[p].IDs) <= maxPerPage =>
            IF ~ParseOK(calls[p].url) THEN submitted[p] = << >>
            ELSE /\ Len(submitted[p]) = 1
                 /\ submitted[p][1].Method = "GET"
                 /\ network[p] = (IF calls[p].parent = CtxActive
                                  THEN submitted[p] ELSE << >>)
                 /\ ~Contains(calls[p].url, << "?" >>) => QueryCarries(p)

C2_Witness ==
    \E p \in Callers :
        /\ IsGetDeployments(p)
        /\ Len(calls[p].IDs) = maxPerPage
        /\ calls[p].IDs[1] = calls[p].IDs[3]
        /\ ~Contains(calls[p].url, << "?" >>)
        /\ Len(submitted[p]) = 1

\* a 404 response, and a 200 response with an empty array
NothingFound(p) ==
    /\ GotResponse(p)
    /\ \/ calls[p].out.StatusCode = 404
       \/ /\ calls[p].out.StatusCode = 200
          /\ calls[p].out.Body.kind = "array"
          /\ calls[p].out.Body.elems = << >>

\* C3: a 404 response (whatever its body) and a 200 response with an empty
\* array both give the absent result and the nil error.
C3_NotFoundIsEmpty ==
    \A p \in Callers :
        NothingFound(p) =>
            /\ NilResult(p)
            /\ calls[p].err = NoError
            /\ calls[p].logged = 0

C3_Witness ==
    \E p \in Callers :
        /\ NothingFound(p)
        /\ IsGetDeployments(p)
        /\ calls[p].out.StatusCode = 404
        /\ calls[p].out.Body.elems # << >>

\* C4: on a 200 response with a non-empty array GetDeployments returns the
\* decoded sequence as it is and GetLatestFinishedDeployment its first
\* element, both with a nil error.
C4_ReturnsDecoded ==
    \A p \in Callers :
        /\ GotResponse(p)
        /\ calls[p].out.StatusCode = 200
        /\ calls[p].out.Body.kind = "array"
        /\ calls[p].out.Body.elems # << >>
        => /\ calls[p].err = NoError
           /\ ~calls[p].result.nil
           /\ IsGetDeployments(p) => calls[p].result.elems = calls[p].out.Body.elems
           /\ IsGetLatest(p) => calls[p].result.elems = << calls[p].out.Body.elems[1] >>

C4_Witness ==
    \E p \in Callers :
        /\ IsGetLatest(p)
        /\ GotResponse(p)
        /\ calls[p].out.StatusCode = 200
        /\ calls[p].out.Body.elems = << "d2", "d1" >>

\* C5: a response whose status is neither 200 nor 404 gives the absent
\* result and an error carrying the method, the URL of the request with its
\* encoded query, and the status text; the body is not decoded.
C5_StatusError ==
    \A p \in Callers :
        GotResponse(p) /\ calls[p].out.StatusCode \notin { 200, 404 } =>
            /\ NilResult(p)
            /\ ~calls[p].err.nil
            /\ calls[p].err.method = "GET"
            /\ calls[p].err.url =
                   network[p][1].URL.Rest \o << "?" >> \o network[p][1].URL.RawQuery
            /\ Contains(network[p][1].URL.RawQuery, KeyPerPage \o << "=" >>)
            /\ calls[p].err.status = calls[p].out.Status
            /\ ~calls[p].decoded

C5_Witness ==
    \E p \in Callers :
        /\ GotResponse(p)
        /\ calls[p].out.StatusCode = 500
        /\ calls[p].out.Body.kind = "array"
        /\ Len(calls[p].IDs) = 2

\* C6: each failing stage gives the absent result and the error of that
\* stage: the request-build error, the transport error, and for a 200
\* response whose body is not a JSON array the decode error; nothing is
\* retried.
C6_StageErrors ==
    \A p \in Callers :
        Done(p) =>
            /\ ~ParseOK(calls[p].url) =>
                   NilResult(p) /\ calls[p].err.text = "failed to create request"
            /\ calls[p].out.cause \notin { "", "none" } =>
                   NilResult(p) /\ calls[p].err.text = "failed to submit %s %s"
            /\ GotResponse(p) /\ calls[p].out.StatusCode = 200
                              /\ calls[p].out.Body.kind # "array" =>
                   NilResult(p) /\ calls[p].err.text = "failed to parse request body"
            /\ Len(submitted[p]) <= 1

\* C7 as stated: a call whose context is cancelled beforehand returns the
\* cancellation error without waiting, for every combination of the other
\* inputs.
C7_CancelledAlways ==
    \A p \in Callers :
        Started(p) /\ calls[p].parent = CtxCanceled =>
            /\ Done(p)
            /\ NilResult(p)
            /\ calls[p].err.cause = CtxCanceled
            /\ network[p] = << >>

\* C7: a call whose context is cancelled beforehand returns without sending
\* or waiting, with the absent result and an error: the cancellation error
\* when the URL parses and GetDeployments has at most 100 IDs, otherwise the
\* request-build or the validation error.
C7_Cancelled ==
    \A p \in Callers :
        Started(p) /\ calls[p].parent = CtxCanceled =>
            /\ Done(p)
            /\ NilResult(p)
            /\ network[p] = << >>
            /\ ~calls[p].err.nil
            /\ IF ~ParseOK(calls[p].url)
               THEN calls[p].err.text = "failed to create request"
               ELSE IF IsGetDeployments(p) /\ Len(calls[p].IDs) > maxPerPage
               THEN calls[p].err.text = "too many IDs"
               ELSE /\ calls[p].err.text = "failed to submit %s %s"
                    /\ calls[p].err.cause = CtxCanceled

C7_Witness ==
    \E p \in Callers :
        /\ IsGetLatest(p)
        /\ calls[p].parent = CtxCanceled
        /\ calls[p].err.cause = CtxCanceled

\* C8: the body of a response is closed exactly once by the time the call
\* has returned, on every return path; without a response nothing is closed.
C8_BodyClosed ==
    \A p \in Callers :
        IF GotResponse(p)
        THEN /\ calls[p].closed = 1
             /\ calls[p].exit \in { "notfound", "status", "decode", "empty", "ok" }
        ELSE calls[p].closed = 0

C8_Witness ==
    \E p \in Callers :
        /\ GotResponse(p)
        /\ calls[p].exit = "decode"
        /\ calls[p].closed = 1

\* the URL and the request a call builds from the client and its own inputs
OwnURL(c, call) ==
    IF call.op = "GetDeployments"
    THEN GetDeploymentsURL(c.urlBase, call.tenantID)
    ELSE GetLatestFinishedDeploymentURL(c.urlBase, call.tenantID, call.deviceID)

OwnRequest(c, call) ==
    IF call.op = "GetDeployments"
    THEN GetDeploymentsRequest(OwnURL(c, call), call.IDs)
    ELSE GetLatestFinishedDeploymentRequest(OwnURL(c, call))

\* C9: no step of a call changes the client or another caller's call, and
\* the URL and request of a call are those built from the client as
\* constructed and the call's own inputs, however the calls interleave.
C9_Step ==
    /\ client' = client
    /\ client \in { NewClient(b) : b \in BaseURLs }
    /\ \A p \in Callers :
        /\ calls'[p] # calls[p] =>
               \A q \in Callers \ {p} :
                   /\ calls'[q] = calls[q]
                   /\ submitted'[q] = submitted[q]
                   /\ network'[q] = network[q]
        /\ calls'[p] # calls[p] =>
               /\ calls'[p].url = OwnURL(client, calls'[p])
               /\ \/ submitted'[p] = << >>
                  \/ submitted'[p] = << OwnRequest(client, calls'[p]) >>
               /\ calls'[p].pc = "done" /\ ~calls'[p].err.nil =>
                      \/ calls'[p].err.url = << >>
                      \/ calls'[p].err.url =
                             URLString(OwnRequest(client, calls'[p]).URL)

C9_NoSharedState == [][C9_Step]_vars

C9_Witness ==
    /\ calls[1].pc = "inflight"
    /\ calls[2].pc = "inflight"
    /\ calls[1].op # calls[2].op

PathPrefix ==
    << "/","a","p","i","/","i","n","t","e","r","n","a","l","/","v","1","/",
       "d","e","p","l","o","y","m","e","n","t","s","/",
       "t","e","n","a","n","t","s","/" >>

PathDevices ==
    << "/","d","e","p","l","o","y","m","e","n","t","s","/",
       "d","e","v","i","c","e","s" >>

\* C10: the URL of GetLatestFinishedDeployment is the base URL joined with
\* the path whose tenant segment is the tenant ID and whose last segment is
\* the device ID, for every tenant and device ID; the URL of GetDeployments
\* is the same without the last segment.
C10_PathTemplate ==
    \A p \in Callers :
        Started(p) =>
            calls[p].url =
                JoinURL(client.urlBase, PathPrefix) \o calls[p].tenantID
                    \o PathDevices
                    \o (IF IsGetLatest(p) THEN << "/" >> \o calls[p].deviceID
                        ELSE << >>)

====
